---- MODULE Spec2Model ----
(***************************************************************************)
(* Model of quick-protobuf's decoding engine (src/src/reader.rs) and of    *)
(* the Packed iterator (src/src/packed.rs).                                *)
(*                                                                         *)
(* Representation of machine integers.                                     *)
(*  - u64 / u32 / i64 / i32 VALUES are bit vectors: functions from the bit *)
(*    position 0..w-1 (0 = least significant) to {0,1}.  Signed types are  *)
(*    their two's complement bit pattern.                                  *)
(*  - the usize BUDGET (Reader.len) is an integer modulo 2^64, held as its *)
(*    representative x with -Window < x < Window: x >= 0 stands for x and  *)
(*    x < 0 stands for 2^64 + x (a value the counter only reaches by       *)
(*    wrapping, or by a declared length with all high bits set).           *)
(*  - integer overflow of `self.len -= n` panics when the crate is built   *)
(*    with overflow checks (debug) and wraps otherwise (release): the      *)
(*    build is the variable overflowChecks.                                *)
(***************************************************************************)
EXTENDS Integers, Sequences, FiniteSets, TLC

VARIABLES inner, len, overflowChecks, shortReadDrains, ctor, read, items,
          written, last, nOps

vars == <<inner, len, overflowChecks, shortReadDrains, ctor, read, items,
          written, last, nOps>>

-----------------------------------------------------------------------------
(* Bounds of the model *)

MaxLen == 2

MaxOps == 2

MaxItems == 2

-----------------------------------------------------------------------------
(* Bit vectors *)

(* budgets are held modulo 2^64 within 2^WindowBits of 0, see above *)
WindowBits == 28

Window == 2 ^ WindowBits

Pow2(k) == 2 ^ k

Bit(n, k) == (n \div Pow2(k)) % 2

BV(n, w) == [j \in 0..(w - 1) |-> IF j < WindowBits THEN Bit(n, j) ELSE 0]

Width(v) == Cardinality(DOMAIN v)

Zero(w) == [j \in 0..(w - 1) |-> 0]

AllOnes(w) == [j \in 0..(w - 1) |-> 1]

MinSigned(w) == [j \in 0..(w - 1) |-> IF j = w - 1 THEN 1 ELSE 0]

MaxSigned(w) == [j \in 0..(w - 1) |-> IF j = w - 1 THEN 0 ELSE 1]

BvOr(a, b) == [j \in DOMAIN a |-> IF a[j] = 1 \/ b[j] = 1 THEN 1 ELSE 0]

BvXor(a, b) == [j \in DOMAIN a |-> IF a[j] = b[j] THEN 0 ELSE 1]

BvAnd(a, b) == [j \in DOMAIN a |-> IF a[j] = 1 /\ b[j] = 1 THEN 1 ELSE 0]

Shl(a, s) == [j \in DOMAIN a |-> IF j >= s THEN a[j - s] ELSE 0]

Shr(a, s) == [j \in DOMAIN a |-> IF j + s < Width(a) THEN a[j + s] ELSE 0]

Sar(a, s) == [j \in DOMAIN a |-> IF j + s < Width(a) THEN a[j + s] ELSE a[Width(a) - 1]]

(* two's complement negation: the bits up to and including the lowest set  *)
(* bit are kept, the bits above it are flipped                              *)
BvNeg(a) == [j \in DOMAIN a |-> IF \E i \in 0..(j - 1) : a[i] = 1 THEN 1 - a[j] ELSE a[j]]

(* `x as u32` / `x as i32` of a 64-bit value: the low w bits *)
Trunc(a, w) == [j \in 0..(w - 1) |-> a[j]]

(* `x as u64` of an unsigned narrower value *)
ZeroExt(a, w) == [j \in 0..(w - 1) |-> IF j < Width(a) THEN a[j] ELSE 0]

(* `x as i64` / `x as u64` of a signed narrower value *)
SignExt(a, w) == [j \in 0..(w - 1) |-> IF j < Width(a) THEN a[j] ELSE a[Width(a) - 1]]

IsZero(a) == \A j \in DOMAIN a : a[j] = 0

-----------------------------------------------------------------------------
(* usize arithmetic on the budget *)

HighAll(v, b) == \A j \in WindowBits..63 : v[j] = b

Representable(v) == HighAll(v, 0) \/ HighAll(v, 1)

RECURSIVE LowInt(_, _)
LowInt(v, j) == IF j = WindowBits THEN 0 ELSE v[j] * Pow2(j) + LowInt(v, j + 1)

(* `v as usize` on a 64-bit target *)
ToUsize(v) ==
    CASE HighAll(v, 0) -> LowInt(v, 0)
      [] HighAll(v, 1) -> LowInt(v, 0) - Window

(* unsigned comparison a < b of two budgets *)
ULess(a, b) == IF (a >= 0) = (b >= 0) THEN a < b ELSE a >= 0

(* `self.len -= n`: attempt to subtract with overflow panics under overflow *)
(* checks, and wraps modulo 2^64 without them                               *)
BudgetSub(l, n) ==
    IF ULess(l, n) /\ overflowChecks
    THEN [panic |-> TRUE, v |-> l]
    ELSE [panic |-> FALSE, v |-> l - n]

-----------------------------------------------------------------------------
(* Outcomes of an operation on a reader rd = [inner, len] *)

Ok(i, l, v) == [inner |-> i, len |-> l, kind |-> "ok", val |-> v]

Err(i, l, e) == [inner |-> i, len |-> l, kind |-> "err", val |-> e]

(* ErrorKind *)
Io == [e |-> "Io", t |-> "", n |-> 0]

Varint == [e |-> "Varint", t |-> "", n |-> 0]

Deprecated(what) == [e |-> "Deprecated", t |-> what, n |-> 0]

UnknownWireType(t) == [e |-> "UnknownWireType", t |-> "", n |-> t]

Panic(i, l, why) == [inner |-> i, len |-> l, kind |-> "panic", val |-> why]

Drop(s, n) == SubSeq(s, n + 1, Len(s))

Take(s, n) == SubSeq(s, 1, n)

(* what is left of the source after a read_exact that hit the end of the   *)
(* data: std leaves the number of bytes read unspecified                   *)
AfterShortRead(i) == IF shortReadDrains THEN <<>> ELSE i

-----------------------------------------------------------------------------
(* Reader *)

from_reader(r, l) == [inner |-> r, len |-> l]

is_eof(rd) == rd.len = 0

(* r |= ((b & 0x7f) as u64) << i *)
OrGroup(r, b, i) == BvOr(r, Shl(BV(b % 128, 64), i))

(* mutant: the tenth byte is taken like the others, its high bits dropped *)
RECURSIVE VarintLoop_truncating(_, _, _, _)
VarintLoop_truncating(i, l, r, k) ==
    LET d == BudgetSub(l, 1) IN
    IF d.panic THEN Panic(i, l, "overflow")
    ELSE IF i = <<>> THEN Err(i, d.v, Io)
    ELSE LET b == Head(i) IN
         IF k < 9
         THEN LET r2 == OrGroup(r, b, 7 * k) IN
              IF b < 128 THEN Ok(Tail(i), d.v, r2)
              ELSE VarintLoop_truncating(Tail(i), d.v, r2, k + 1)
         ELSE Ok(Tail(i), d.v, OrGroup(r, b, 63))

RECURSIVE VarintLoop(_, _, _, _)
VarintLoop(i, l, r, k) ==
    LET d == BudgetSub(l, 1) IN
    IF d.panic THEN Panic(i, l, "overflow")
    ELSE IF i = <<>> THEN Err(i, d.v, Io)
    ELSE LET b == Head(i) IN
         IF k < 9
         THEN LET r2 == OrGroup(r, b, 7 * k) IN
              IF b < 128 THEN Ok(Tail(i), d.v, r2)
              ELSE VarintLoop(Tail(i), d.v, r2, k + 1)
         ELSE CASE b = 0 -> Ok(Tail(i), d.v, r)
                [] b = 1 -> Ok(Tail(i), d.v, BvOr(r, Shl(BV(1, 64), 63)))
                [] OTHER -> Err(Tail(i), d.v, Varint)

read_varint(rd) == VarintLoop(rd.inner, rd.len, Zero(64), 0)

AsU32(v) == Trunc(v, 32)

(* .map(|i| i as u32), .map(|i| i as i32) *)
MapAsU32(o) == IF o.kind = "ok" THEN [o EXCEPT !.val = AsU32(@)] ELSE o

next_tag(rd) == MapAsU32(read_varint(rd))

read_int32(rd) == MapAsU32(read_varint(rd))

read_int64(rd) == read_varint(rd)

read_uint32(rd) == MapAsU32(read_varint(rd))

read_uint64(rd) == read_varint(rd)

(* mutant: the sign bit is not negated *)
UnZigZag_no_negate(n) == BvXor(Shr(n, 1), BvAnd(n, BV(1, Width(n))))

(* ((n >> 1) as iN) ^ (-((n & 1) as iN)) *)
UnZigZag(n) == BvXor(Shr(n, 1), BvNeg(BvAnd(n, BV(1, Width(n)))))

UnZigZag32(v) == UnZigZag(Trunc(v, 32))

read_sint32(rd) ==
    LET o == read_varint(rd) IN
    IF o.kind = "ok" THEN [o EXCEPT !.val = UnZigZag32(@)] ELSE o

read_sint64(rd) ==
    LET o == read_varint(rd) IN
    IF o.kind = "ok" THEN [o EXCEPT !.val = UnZigZag(@)] ELSE o

NonZero(v) == ~IsZero(v)

read_bool(rd) ==
    LET o == read_varint(rd) IN
    IF o.kind = "ok" THEN [o EXCEPT !.val = NonZero(@)] ELSE o

(* little-endian value of n bytes *)
FromLE(bs) == [j \in 0..(8 * Len(bs) - 1) |-> Bit(bs[(j \div 8) + 1], j % 8)]

(* self.len -= n; self.inner.read_uN::<LE>() *)
ReadFixed(rd, n) ==
    LET d == BudgetSub(rd.len, n) IN
    IF d.panic THEN Panic(rd.inner, rd.len, "overflow")
    ELSE IF Len(rd.inner) < n THEN Err(AfterShortRead(rd.inner), d.v, Io)
    ELSE Ok(Drop(rd.inner, n), d.v, FromLE(Take(rd.inner, n)))

read_fixed64(rd) == ReadFixed(rd, 8)

read_fixed32(rd) == ReadFixed(rd, 4)

read_sfixed64(rd) == ReadFixed(rd, 8)

read_sfixed32(rd) == ReadFixed(rd, 4)

read_float(rd) == ReadFixed(rd, 4)

read_double(rd) == ReadFixed(rd, 8)

-----------------------------------------------------------------------------
(* Length-delimited operations *)

(* Vec::with_capacity(n) panics with "capacity overflow" above isize::MAX *)
CapacityOverflow(n) == n < 0

(* self.len -= len; allocate len bytes; self.inner.read_exact(..) *)
ReadExactLen(i, l, n) ==
    LET d == BudgetSub(l, n) IN
    IF d.panic THEN Panic(i, l, "overflow")
    ELSE IF CapacityOverflow(n) THEN Panic(i, d.v, "capacity")
    ELSE IF Len(i) < n THEN Err(AfterShortRead(i), d.v, Io)
    ELSE Ok(Drop(i, n), d.v, Take(i, n))

read_bytes(rd) ==
    LET v == read_varint(rd) IN
    IF v.kind # "ok" THEN v
    ELSE ReadExactLen(v.inner, v.len, ToUsize(v.val))

WireType(tag_value) == tag_value[0] + 2 * tag_value[1] + 4 * tag_value[2]

Unit == "unit"

(* the value read is dropped: Ok(()) *)
ToUnit(o) == IF o.kind = "ok" THEN [o EXCEPT !.val = Unit] ELSE o

(* mutant: the widths of the two fixed wire types are exchanged *)
read_unknown_fixed_swapped(rd, tag_value) ==
    LET t == WireType(tag_value) IN
    CASE t = 0 -> ToUnit(read_varint(rd))
      [] t = 1 -> ToUnit(ReadFixed(rd, 4))
      [] t = 5 -> ToUnit(ReadFixed(rd, 8))
      [] t = 2 -> LET v == read_varint(rd) IN
                  IF v.kind # "ok" THEN v
                  ELSE IF ToUsize(v.val) = 0 THEN Ok(v.inner, v.len, Unit)
                  ELSE ToUnit(ReadExactLen(v.inner, v.len, ToUsize(v.val)))
      [] t \in {3, 4} -> Err(rd.inner, rd.len, Deprecated("group"))
      [] OTHER -> Err(rd.inner, rd.len, UnknownWireType(t))

(* mutant: END_GROUP is left out of the group arm *)
read_unknown_end_group_unknown(rd, tag_value) ==
    LET t == WireType(tag_value) IN
    CASE t = 0 -> ToUnit(read_varint(rd))
      [] t = 1 -> ToUnit(ReadFixed(rd, 8))
      [] t = 5 -> ToUnit(ReadFixed(rd, 4))
      [] t = 2 -> LET v == read_varint(rd) IN
                  IF v.kind # "ok" THEN v
                  ELSE IF ToUsize(v.val) = 0 THEN Ok(v.inner, v.len, Unit)
                  ELSE ToUnit(ReadExactLen(v.inner, v.len, ToUsize(v.val)))
      [] t = 3 -> Err(rd.inner, rd.len, Deprecated("group"))
      [] OTHER -> Err(rd.inner, rd.len, UnknownWireType(t))

read_unknown(rd, tag_value) ==
    LET t == WireType(tag_value) IN
    CASE t = 0 -> ToUnit(read_varint(rd))
      [] t = 1 -> ToUnit(ReadFixed(rd, 8))
      [] t = 5 -> ToUnit(ReadFixed(rd, 4))
      [] t = 2 -> LET v == read_varint(rd) IN
                  IF v.kind # "ok" THEN v
                  ELSE IF ToUsize(v.val) = 0 THEN Ok(v.inner, v.len, Unit)
                  ELSE ToUnit(ReadExactLen(v.inner, v.len, ToUsize(v.val)))
      [] t \in {3, 4} -> Err(rd.inner, rd.len, Deprecated("group"))
      [] OTHER -> Err(rd.inner, rd.len, UnknownWireType(t))

(* the primitive reads a caller can pass as the item reader of a packed    *)
(* field, or call from a MessageRead implementation                       *)
Prim(name, rd) ==
    CASE name = "read_int32" -> read_int32(rd)
      [] name = "read_int64" -> read_int64(rd)
      [] name = "read_uint32" -> read_uint32(rd)
      [] name = "read_uint64" -> read_uint64(rd)
      [] name = "read_sint32" -> read_sint32(rd)
      [] name = "read_sint64" -> read_sint64(rd)
      [] name = "read_bool" -> read_bool(rd)
      [] name = "read_fixed64" -> read_fixed64(rd)
      [] name = "read_fixed32" -> read_fixed32(rd)
      [] name = "read_sfixed64" -> read_sfixed64(rd)
      [] name = "read_sfixed32" -> read_sfixed32(rd)
      [] name = "read_float" -> read_float(rd)
      [] name = "read_double" -> read_double(rd)
      [] name = "read_bytes" -> read_bytes(rd)

(* mutant: an item is put in front of the items read before it *)
RECURSIVE PackedLoop_reversed(_, _, _, _)
PackedLoop_reversed(i, l, f, v) ==
    IF is_eof(from_reader(i, l)) THEN Ok(i, l, v)
    ELSE LET o == Prim(f, from_reader(i, l)) IN
         IF o.kind # "ok" THEN o
         ELSE PackedLoop_reversed(o.inner, o.len, f, <<o.val>> \o v)

(* while !self.is_eof() { v.push(read(self)?); } *)
RECURSIVE PackedLoop(_, _, _, _)
PackedLoop(i, l, f, v) ==
    IF is_eof(from_reader(i, l)) THEN Ok(i, l, v)
    ELSE LET o == Prim(f, from_reader(i, l)) IN
         IF o.kind # "ok" THEN o
         ELSE PackedLoop(o.inner, o.len, f, Append(v, o.val))

(* self.len = cur_len - len, after the nested decode returned Ok *)
RestoreScope(o, cur_len, n) ==
    LET d == BudgetSub(cur_len, n) IN
    IF d.panic THEN Panic(o.inner, o.len, "overflow")
    ELSE Ok(o.inner, d.v, o.val)

read_packed_repeated_field(rd, f) ==
    LET v == read_varint(rd) IN
    IF v.kind # "ok" THEN v
    ELSE LET n == ToUsize(v.val)
             o == PackedLoop(v.inner, n, f, <<>>)
         IN IF o.kind # "ok" THEN o ELSE RestoreScope(o, v.len, n)

-----------------------------------------------------------------------------
(* MessageRead implementations *)

None == <<>>

Some(v) == <<v>>

(* TestMessage::from_reader of tests/write_read.rs *)
RECURSIVE TestMessageLoop(_, _, _)
TestMessageLoop(i, l, msg) ==
    IF is_eof(from_reader(i, l)) THEN Ok(i, l, msg)
    ELSE LET t == next_tag(from_reader(i, l)) IN
         IF t.kind # "ok" THEN t
         ELSE LET rd == from_reader(t.inner, t.len) IN
              CASE t.val = BV(10, 32) ->
                     LET o == read_uint32(rd) IN
                     IF o.kind # "ok" THEN o
                     ELSE TestMessageLoop(o.inner, o.len, [msg EXCEPT !.id = Some(o.val)])
                [] t.val = BV(18, 32) ->
                     LET o == read_sint64(rd) IN
                     IF o.kind # "ok" THEN o
                     ELSE TestMessageLoop(o.inner, o.len, [msg EXCEPT !.val = Append(@, o.val)])
                [] OTHER ->
                     LET o == read_unknown(rd, t.val) IN
                     IF o.kind # "ok" THEN o
                     ELSE TestMessageLoop(o.inner, o.len, msg)

(* the MessageRead implementations read_message is called with:            *)
(* TestMessage, and messages that read the given fields in order and       *)
(* return, whatever is left of their scope                                 *)
FieldsOf(M) ==
    CASE M = "Empty" -> <<>>
      [] M = "OneUint32" -> <<"read_uint32">>
      [] M = "OneFixed32" -> <<"read_fixed32">>

RECURSIVE FieldsLoop(_, _, _, _)
FieldsLoop(i, l, fs, vs) ==
    IF fs = <<>> THEN Ok(i, l, vs)
    ELSE LET o == Prim(Head(fs), from_reader(i, l)) IN
         IF o.kind # "ok" THEN o
         ELSE FieldsLoop(o.inner, o.len, Tail(fs), Append(vs, o.val))

(* M::from_reader(self) *)
M_from_reader(M, rd) ==
    IF M = "TestMessage"
    THEN TestMessageLoop(rd.inner, rd.len, [id |-> None, val |-> <<>>])
    ELSE FieldsLoop(rd.inner, rd.len, FieldsOf(M), <<>>)

read_message(rd, M) ==
    LET v == read_varint(rd) IN
    IF v.kind # "ok" THEN v
    ELSE LET n == ToUsize(v.val)
             o == M_from_reader(M, from_reader(v.inner, n))
         IN IF o.kind # "ok" THEN o ELSE RestoreScope(o, v.len, n)

-----------------------------------------------------------------------------
(* The encoder (Writer), whose code is not part of the decoding sources:   *)
(* the wire format as the specification states it.                         *)

(* number of 7-bit groups of the varint of v *)
RECURSIVE VarintGroups(_, _)
VarintGroups(v, n) ==
    IF n = 10 \/ \A j \in (7 * n)..63 : v[j] = 0 THEN n ELSE VarintGroups(v, n + 1)

Group7(v, g) ==
    LET B(t) == IF 7 * g + t <= 63 THEN v[7 * g + t] * Pow2(t) ELSE 0
    IN B(0) + B(1) + B(2) + B(3) + B(4) + B(5) + B(6)

write_varint(v) ==
    LET n == VarintGroups(v, 1)
    IN [g \in 1..n |-> IF g < n THEN 128 + Group7(v, g - 1) ELSE Group7(v, g - 1)]

(* n -> (n << 1) ^ (n >> (width - 1)), with an arithmetic right shift *)
ZigZag(n) == BvXor(Shl(n, 1), Sar(n, Width(n) - 1))

ByteOf(v, k) ==
    LET B(t) == v[8 * k + t] * Pow2(t)
    IN B(0) + B(1) + B(2) + B(3) + B(4) + B(5) + B(6) + B(7)

ToLE(v) == [k \in 1..(Width(v) \div 8) |-> ByteOf(v, k - 1)]

(* Writer::write_X for the value read back by Reader::read_X *)
Write(name, v) ==
    CASE name = "read_int32" -> write_varint(SignExt(v, 64))
      [] name = "read_int64" -> write_varint(v)
      [] name = "read_uint32" -> write_varint(ZeroExt(v, 64))
      [] name = "read_uint64" -> write_varint(v)
      [] name = "read_sint32" -> write_varint(ZeroExt(ZigZag(v), 64))
      [] name = "read_sint64" -> write_varint(ZigZag(v))
      [] name = "read_bool" -> write_varint(BV(IF v THEN 1 ELSE 0, 64))
      [] name \in {"read_fixed64", "read_fixed32", "read_sfixed64", "read_sfixed32"} -> ToLE(v)

RECURSIVE WriteItems(_, _)
WriteItems(name, vs) ==
    IF vs = <<>> THEN <<>> ELSE Write(name, Head(vs)) \o WriteItems(name, Tail(vs))

(* Writer::write_packed_repeated_field: length prefix, then the items *)
write_packed_repeated_field(name, vs) ==
    write_varint(BV(Len(WriteItems(name, vs)), 64)) \o WriteItems(name, vs)

-----------------------------------------------------------------------------
(* Inputs *)

Alphabet == {0, 1, 2, 128}

RawInputs == UNION {[1..k -> Alphabet] : k \in 0..MaxLen}

Nine(c) == <<c, c, c, c, c, c, c, c, c>>

TenByteVarints ==
    {Nine(c) \o <<t>> : c \in {128, 255}, t \in {0, 1, 2, 128, 129, 255}}
    \cup {Nine(255) \o <<129, 1>>, Nine(255) \o <<1, 7>>}

Curated ==
    {<<150, 1>>,
     <<1, 0, 0, 0>>,
     <<1, 0, 0, 0, 2, 0, 0, 0>>,
     <<5, 1, 0, 0, 0, 2, 0, 0, 0>>,
     <<4, 1, 0, 0, 0, 7>>,
     <<8, 1, 0, 0, 0, 2, 0, 0, 0, 7>>,
     <<2, 10, 63, 18, 1>>,
     <<4, 10, 63, 18, 1, 7>>,
     <<3, 10, 63, 18, 1>>,
     <<6, 13, 1, 2, 3, 4, 7>>,
     <<3, 2, 1, 9, 7>>,
     <<1, 128, 1>>,
     <<2, 1, 1, 1>>}
    \cup TenByteVarints

Inputs == RawInputs \cup Curated

BudgetsFor(d) == {l \in {Len(d) - 1, Len(d), Len(d) + 1} : l >= 0}

PrimReaders32 == {"read_int32", "read_uint32", "read_sint32", "read_fixed32", "read_sfixed32"}

PrimReaders64 == {"read_int64", "read_uint64", "read_sint64", "read_fixed64", "read_sfixed64"}

Values(w) ==
    {Zero(w), BV(1, w), BV(145, w), BV(150, w), AllOnes(w), MinSigned(w), MaxSigned(w),
     BvNeg(BV(2, w))}

ValuesOf(name) ==
    CASE name \in PrimReaders32 -> Values(32)
      [] name \in PrimReaders64 -> Values(64)
      [] name = "read_bool" -> BOOLEAN

ItemReaders == {"read_uint32", "read_fixed32", "read_sint64"}

ItemValues(name) == IF name \in PrimReaders32 THEN {BV(1, 32), BV(150, 32), AllOnes(32)}
                    ELSE {BV(1, 64), BV(150, 64), AllOnes(64)}

ItemSeqs(name) == UNION {[1..k -> ItemValues(name)] : k \in 0..MaxItems}

MessageTypes == {"TestMessage", "Empty", "OneUint32", "OneFixed32"}

TagValues == {BV(n, 32) : n \in (0..7) \cup {11, 14}}

NoWrite == [type |-> "none", item |-> "none", value |-> <<>>]

(* a value with the name of its type: the history holds arguments and      *)
(* results of every type, and values of different types are never compared *)
Typed(ty, v) == [t \in {ty} |-> v]

Value(b) == b[CHOOSE t \in DOMAIN b : TRUE]

(* the type of the argument of the operation *)
ArgType(name) == IF name = "read_unknown" THEN "u32" ELSE "name"

(* the type of what the operation returned: T of Result<T>, the error, or  *)
(* nothing when it panicked or was not called                              *)
ReturnType(name, arg, kind) ==
    CASE kind = "err" -> "Error"
      [] kind = "panic" -> "panic"
      [] kind \in {"None", "none"} -> "none"
      [] name = "read_bool" -> "bool"
      [] name = "read_bytes" -> "Vec<u8>"
      [] name = "read_unknown" -> "()"
      [] name = "read_packed_repeated_field" -> "Vec<M>"
      [] name = "read_message" -> arg
      [] OTHER -> "bits"

NoOp == [name |-> "none", arg |-> Typed("name", "none"), inner |-> <<>>, len |-> 0,
         kind |-> "none", val |-> Typed("none", "none")]

-----------------------------------------------------------------------------
(* Construction *)

(* Reader::from_bytes(bytes): the budget is the length of the slice *)
from_bytes(bytes) == from_reader(bytes, Len(bytes))

Construct(rd, c, f, w) ==
    /\ inner = rd.inner
    /\ len = rd.len
    /\ ctor = c
    /\ read = f
    /\ written = w
    /\ items = <<>>
    /\ last = NoOp
    /\ nOps = 0

Init ==
    /\ overflowChecks \in BOOLEAN
    /\ shortReadDrains \in BOOLEAN
    /\ \/ \E d \in Inputs : \E l \in BudgetsFor(d) :
             Construct(from_reader(d, l), "from_reader", "none", NoWrite)
       \/ \E name \in PrimReaders32 \cup PrimReaders64 \cup {"read_bool"} :
             \E v \in ValuesOf(name) :
                Construct(from_bytes(Write(name, v)), "from_bytes", "none",
                          [type |-> "prim", item |-> name, value |-> v])
       \/ \E name \in ItemReaders : \E vs \in ItemSeqs(name) :
             \/ Construct(from_bytes(write_packed_repeated_field(name, vs)), "from_bytes",
                          "none", [type |-> "packed", item |-> name, value |-> vs])
             \/ Construct(from_bytes(WriteItems(name, vs)), "Packed", name,
                          [type |-> "chunk", item |-> name, value |-> vs])
       \/ \E d \in Inputs : \E name \in ItemReaders :
             Construct(from_bytes(d), "Packed", name, NoWrite)

-----------------------------------------------------------------------------
(* Operations *)

Self == from_reader(inner, len)

(* every caller propagates a failure with `?`: a reader is not used again   *)
(* after an operation on it failed                                         *)
CanCall == ctor # "Packed" /\ last.kind \notin {"panic", "err"} /\ nOps < MaxOps

(* the call name(arg) with outcome o *)
Call(name, arg, o) ==
    /\ CanCall
    /\ inner' = o.inner
    /\ len' = o.len
    /\ last' = [name |-> name, arg |-> Typed(ArgType(name), arg), inner |-> inner,
                len |-> len, kind |-> o.kind,
                val |-> Typed(ReturnType(name, arg, o.kind), o.val)]
    /\ nOps' = nOps + 1
    /\ UNCHANGED <<overflowChecks, shortReadDrains, ctor, read, items, written>>

(* a length prefix the model can hold as a budget *)
PrefixOk ==
    LET v == read_varint(Self) IN v.kind = "ok" => Representable(v.val)

NextTag == Call("next_tag", "none", next_tag(Self))

ReadInt32 == Call("read_int32", "none", read_int32(Self))

ReadInt64 == Call("read_int64", "none", read_int64(Self))

ReadUint32 == Call("read_uint32", "none", read_uint32(Self))

ReadUint64 == Call("read_uint64", "none", read_uint64(Self))

ReadSint32 == Call("read_sint32", "none", read_sint32(Self))

ReadSint64 == Call("read_sint64", "none", read_sint64(Self))

ReadFixed64 == Call("read_fixed64", "none", read_fixed64(Self))

ReadFixed32 == Call("read_fixed32", "none", read_fixed32(Self))

ReadSfixed64 == Call("read_sfixed64", "none", read_sfixed64(Self))

ReadSfixed32 == Call("read_sfixed32", "none", read_sfixed32(Self))

ReadFloat == Call("read_float", "none", read_float(Self))

ReadDouble == Call("read_double", "none", read_double(Self))

ReadBool == Call("read_bool", "none", read_bool(Self))

ReadBytes == PrefixOk /\ Call("read_bytes", "none", read_bytes(Self))

ReadPackedRepeatedField ==
    /\ PrefixOk
    /\ \E f \in ItemReaders :
          Call("read_packed_repeated_field", f, read_packed_repeated_field(Self, f))

ReadMessage ==
    /\ PrefixOk
    /\ \E M \in MessageTypes : Call("read_message", M, read_message(Self, M))

ReadUnknown ==
    \E t \in TagValues :
       /\ WireType(t) = 2 => PrefixOk
       /\ Call("read_unknown", t, read_unknown(Self, t))

(* Packed::next *)
PackedNext ==
    /\ ctor = "Packed"
    /\ last.kind # "panic"
    /\ nOps < MaxItems + 2
    /\ LET o == IF is_eof(Self) THEN [inner |-> inner, len |-> len, kind |-> "None",
                                      val |-> "none"]
                ELSE Prim(read, Self)
       IN /\ inner' = o.inner
          /\ len' = o.len
          /\ items' = IF o.kind \in {"ok", "err"}
                      THEN Append(items, [kind |-> o.kind,
                                          val |-> Typed(ReturnType("next", read, o.kind), o.val)])
                      ELSE items
          /\ last' = [name |-> "next", arg |-> Typed(ArgType("next"), read), inner |-> inner,
                      len |-> len, kind |-> o.kind,
                      val |-> Typed(ReturnType("next", read, o.kind), o.val)]
    /\ nOps' = nOps + 1
    /\ UNCHANGED <<overflowChecks, shortReadDrains, ctor, read, written>>

Next ==
    \/ NextTag
    \/ ReadInt32
    \/ ReadInt64
    \/ ReadUint32
    \/ ReadUint64
    \/ ReadSint32
    \/ ReadSint64
    \/ ReadFixed64
    \/ ReadFixed32
    \/ ReadSfixed64
    \/ ReadSfixed32
    \/ ReadFloat
    \/ ReadDouble
    \/ ReadBool
    \/ ReadBytes
    \/ ReadPackedRepeatedField
    \/ ReadMessage
    \/ ReadUnknown
    \/ PackedNext

Spec == Init /\ [][Next]_vars

-----------------------------------------------------------------------------
(* The wire format, stated on the bytes of the source and independently of  *)
(* the reader: what the claims compare the reader against.                 *)

Min(a, b) == IF a < b THEN a ELSE b

VarintEndsAt(i, k) ==
    /\ k <= Len(i)
    /\ \A j \in 1..(k - 1) : i[j] >= 128
    /\ IF k = 10 THEN i[k] <= 1 ELSE i[k] < 128

WellFormedVarint(i) == \E k \in 1..10 : VarintEndsAt(i, k)

VarintSize(i) == CHOOSE k \in 1..10 : VarintEndsAt(i, k)

RECURSIVE GroupsInt(_, _)
GroupsInt(i, k) == IF k = 0 THEN 0 ELSE (i[k] % 128) + 128 * GroupsInt(i, k - 1)

(* the value of the varint at the head of i; -1 when it exceeds 2^28 *)
VarintInt(i) ==
    LET k == VarintSize(i) IN
    IF \E j \in 5..k : i[j] % 128 # 0 THEN -1
    ELSE LET m == Min(k, 4) IN GroupsInt([j \in 1..m |-> i[m + 1 - j]], m)

(* encoded size of the field of wire type wt at the head of i; 0 when the  *)
(* source does not hold a whole well-formed field                          *)
FieldSize(i, wt) ==
    CASE wt = 0 -> IF WellFormedVarint(i) THEN VarintSize(i) ELSE 0
      [] wt = 1 -> IF Len(i) >= 8 THEN 8 ELSE 0
      [] wt = 5 -> IF Len(i) >= 4 THEN 4 ELSE 0
      [] wt = 2 -> IF /\ WellFormedVarint(i)
                      /\ VarintInt(i) >= 0
                      /\ VarintSize(i) + VarintInt(i) <= Len(i)
                   THEN VarintSize(i) + VarintInt(i) ELSE 0
      [] OTHER -> 0

(* bytes the last operation took from the source *)
Consumed == Len(last.inner) - Len(inner)

(* the budget covers n more bytes *)
Covers(l, n) == l >= 0 /\ n <= l

VarintOps ==
    {"next_tag", "read_int32", "read_int64", "read_uint32", "read_uint64", "read_sint32",
     "read_sint64", "read_bool"}

FixedOps ==
    {"read_fixed64", "read_fixed32", "read_sfixed64", "read_sfixed32", "read_float",
     "read_double"}

FixedWidth(name) == IF name \in {"read_fixed64", "read_sfixed64", "read_double"} THEN 8 ELSE 4

ScopeOps == {"read_message", "read_packed_repeated_field"}

(* of the last operation, a length-delimited one: the declared length, and *)
(* the budget left to the parent once the length prefix is read            *)
Declared == VarintInt(last.inner)

ScopeEntryBudget == last.len - VarintSize(last.inner)

-----------------------------------------------------------------------------
(* Claims *)

(* C1: whenever read_message or read_packed_repeated_field returns         *)
(* successfully, the remaining budget is the parent's budget at the entry  *)
(* of the scope minus the declared length, exactly, for every declared     *)
(* length.  The code computes cur_len - len unchecked: without overflow    *)
(* checks a declared length above the parent's budget wraps the counter.   *)
C1_FramingExact ==
    (/\ last.name \in ScopeOps
     /\ last.kind = "ok"
     /\ Covers(last.len, VarintSize(last.inner)))
    => /\ Declared >= 0
       /\ Covers(ScopeEntryBudget, Declared)
       /\ len = ScopeEntryBudget - Declared

(* C2: for every primitive decode operation and for every outcome, success *)
(* or read error, the budget decreased by the number of bytes consumed     *)
(* from the source.  (Stated on the runs in which the counter does not     *)
(* wrap.)                                                                  *)
C2_BudgetMatchesConsumed ==
    (/\ last.name \in VarintOps \cup FixedOps \cup {"read_bytes"}
     /\ last.kind \in {"ok", "err"}
     /\ last.len >= 0
     /\ len >= 0)
    => last.len - len = Consumed

(* C3: after read_message returned, the source is positioned at the first  *)
(* byte after the declared region, also when the nested decode consumed    *)
(* fewer bytes than declared.                                              *)
C3_TrailingSkipped ==
    (/\ last.name = "read_message"
     /\ last.kind = "ok"
     /\ FieldSize(last.inner, 2) > 0)
    => inner = Drop(last.inner, FieldSize(last.inner, 2))

(* C4: read_unknown of a well-formed field of wire type 0, 1, 2 or 5 that  *)
(* the budget covers succeeds, decreases the budget by the encoded size of *)
(* the field and consumes exactly the field from the source.               *)
C4_UnknownSkip ==
    (/\ last.name = "read_unknown"
     /\ WireType(Value(last.arg)) \in {0, 1, 2, 5}
     /\ FieldSize(last.inner, WireType(Value(last.arg))) > 0
     /\ Covers(last.len, FieldSize(last.inner, WireType(Value(last.arg)))))
    => /\ last.kind = "ok"
       /\ len = last.len - FieldSize(last.inner, WireType(Value(last.arg)))
       /\ inner = Drop(last.inner, FieldSize(last.inner, WireType(Value(last.arg))))

C4_Witness ==
    /\ last.name = "read_unknown"
    /\ WireType(Value(last.arg)) = 2
    /\ FieldSize(last.inner, 2) > 1
    /\ Covers(last.len, FieldSize(last.inner, 2))
    /\ last.kind = "ok"
    /\ Len(inner) > 0

(* C5: read_unknown of a tag of wire type 3 or 4 fails with               *)
(* Deprecated("group"), of wire type 6 or 7 with UnknownWireType of that   *)
(* value; no byte is consumed and the budget is unchanged.                 *)
C5_GroupRejected ==
    (last.name = "read_unknown" /\ WireType(Value(last.arg)) \in {3, 4, 6, 7})
    => /\ last.kind = "err"
       /\ IF WireType(Value(last.arg)) \in {3, 4}
          THEN Value(last.val) = Deprecated("group")
          ELSE Value(last.val) = UnknownWireType(WireType(Value(last.arg)))
       /\ inner = last.inner
       /\ len = last.len

C5_Witness ==
    /\ last.name = "read_unknown"
    /\ WireType(Value(last.arg)) = 3
    /\ last.kind = "err"
    /\ Len(last.inner) > 0
    /\ last.len > 0

(* C6: a varint read whose first nine bytes all have the continuation bit  *)
(* takes exactly ten bytes: a tenth byte 0 or 1 gives the value (1 sets    *)
(* bit 63), any other tenth byte fails with the Varint error.              *)
NineContinued(i) == Len(i) >= 10 /\ \A j \in 1..9 : i[j] >= 128

TenByteValue(i) ==
    [j \in 0..63 |-> IF j = 63 THEN i[10] ELSE Bit(i[(j \div 7) + 1] % 128, j % 7)]

C6_TenthByte ==
    (last.name \in VarintOps /\ NineContinued(last.inner) /\ last.kind # "panic")
    => /\ Consumed = 10
       /\ IF last.inner[10] \in {0, 1}
          THEN /\ last.kind = "ok"
               /\ last.name = "read_uint64" => Value(last.val) = TenByteValue(last.inner)
          ELSE last.kind = "err" /\ Value(last.val) = Varint

C6_Witness ==
    /\ last.name = "read_uint64"
    /\ NineContinued(last.inner)
    /\ last.inner[10] = 129
    /\ Len(last.inner) > 10
    /\ last.kind = "err"

(* C7: a packed chunk written from N items decodes to exactly the N items  *)
(* in order, by read_packed_repeated_field and by the Packed iterator,     *)
(* after which the scoped budget is zero and no further item is produced.  *)
C7_PackedCardinality ==
    /\ (/\ written.type = "packed"
        /\ last.name = "read_packed_repeated_field"
        /\ Value(last.arg) = written.item
        /\ nOps = 1)
       => (last.kind = "ok" /\ Value(last.val) = written.value /\ len = 0)
    /\ (written.type = "chunk" /\ ctor = "Packed")
       => /\ nOps <= Len(written.value) => Len(items) = nOps
          /\ Len(items) <= Len(written.value)
          /\ \A k \in 1..Len(items) :
                items[k].kind = "ok" /\ Value(items[k].val) = written.value[k]
          /\ nOps > Len(written.value) => (last.kind = "None" /\ len = 0)

C7_Witness ==
    /\ written.type = "chunk"
    /\ ctor = "Packed"
    /\ Len(written.value) = 2
    /\ written.value[1] # written.value[2]
    /\ Len(items) = 2
    /\ last.kind = "None"

(* C8: a packed decode whose scope is not a whole number of items ends     *)
(* with a decode error: it does not panic, does not take bytes beyond the  *)
(* scope, and does not go on past the scope boundary.                      *)
C8_NoPartialItem ==
    /\ (/\ last.name = "next"
        /\ Value(last.arg) = "read_fixed32"
        /\ last.len \in 1..3)
       => last.kind = "err"
    /\ (last.name = "next" /\ last.len < 0) => last.kind = "None"
    /\ (/\ last.name = "read_packed_repeated_field"
        /\ Value(last.arg) = "read_fixed32"
        /\ WellFormedVarint(last.inner)
        /\ VarintInt(last.inner) % 4 # 0
        /\ Covers(last.len, VarintSize(last.inner) + VarintInt(last.inner)))
       => /\ last.kind = "err"
          /\ Consumed <= VarintSize(last.inner) + VarintInt(last.inner)

(* C9: decoding the encoding of a value with the matching read returns the *)
(* value and leaves the reader at EOF; [0x96, 0x01] decodes to 150.        *)
C9_RoundTrip ==
    /\ (written.type = "prim" /\ last.name = written.item /\ nOps = 1)
       => (last.kind = "ok" /\ Value(last.val) = written.value /\ len = 0)
    /\ (/\ last.name = "read_uint64"
        /\ last.inner = <<150, 1>>
        /\ last.len = 2)
       => (last.kind = "ok" /\ Value(last.val) = BV(150, 64) /\ len = 0)

C9_Witness ==
    /\ written.type = "prim"
    /\ written.item = "read_sint64"
    /\ written.value = MinSigned(64)
    /\ last.name = "read_sint64"
    /\ nOps = 1
    /\ last.kind = "ok"
    /\ Len(last.inner) = 10

(* C10: the budget never underflows or wraps, and an operation whose fixed *)
(* width or declared length exceeds the remaining budget fails with an     *)
(* error.                                                                  *)
C10_BudgetNeverUnderflows ==
    /\ len >= 0
    /\ (last.name \in FixedOps /\ ULess(last.len, FixedWidth(last.name)))
       => last.kind = "err"
    /\ (/\ last.name \in {"read_bytes", "read_message", "read_packed_repeated_field"}
        /\ WellFormedVarint(last.inner)
        /\ Covers(last.len, VarintSize(last.inner))
        /\ (Declared < 0 \/ Declared > ScopeEntryBudget))
       => last.kind = "err"

====
